---- MODULE Spec2Model ----
(***************************************************************************)
(* The ledger state machine of src/src/blockchain.rs (struct Blockchain)   *)
(* as driven by the dispatcher loop of src/src/main.rs: the console        *)
(* operations (create wallet, submit, validation pass, mine) and the three *)
(* peer-message handlers (Block, Transaction, ValidationResult).           *)
(*                                                                         *)
(* One node is modelled in full.  Its peers are the environment: they run  *)
(* the same program, so the messages they publish are the ones the         *)
(* program builds (a Transaction out of submit_task, a Block out of        *)
(* Block::new, a ValidationResult out of validate_pending_tasks), about    *)
(* any task, sender and chain position.                                    *)
(***************************************************************************)
EXTENDS Integers, Sequences, FiniteSets, TLC

VARIABLES
    blockchain,   \* main.rs:23  the Blockchain object (chain, wallets, pools)
    wallet_file,  \* wallet.rs:9  the content of the wallet file on disk
    last,         \* history: the operation that produced this state
    slashed,      \* history: the task ids whose only withheld stake is forfeited
    handler,      \* main.rs:46  where the dispatcher loop is: at its select!,
                  \* or inside a validation pass or a mine_block call
    published,    \* the messages the last step handed to gossipsub.publish,
                  \* and whether publish returned Ok
    custody       \* history: per wallet and task id, the stakes submit_task
                  \* withheld and the credits mine_block paid

vars == <<blockchain, wallet_file, last, slashed, handler, published, custody>>

(***************************************************************************)
(* Bounds of the model.                                                    *)
(***************************************************************************)
\* Spec explores the pools: longest chain (genesis included) and most
\* entries tasks_for_validation and tasks_for_mining hold together
MaxChain == 2
MaxPool == 2
\* SpecChain explores the chain: the same two bounds
LongChain == 3
SmallPool == 1
\* latest value Utc::now().timestamp() returns
MaxTime == 0
\* SpecRestart: the process is not started again once a balance is larger
MaxBalance == 13

(***************************************************************************)
(* Data: wallet addresses, task ids, proof metadata.                       *)
(***************************************************************************)
Addresses == {"w1"}
Tasks == {"t1", "t2"}
\* the values the system clock returns (it is not monotonic)
Times == 0..MaxTime

\* wallet.rs:21  a new wallet's balance_yuki
InitialBalance == 10
\* blockchain.rs:67
StakeAmount == 5
\* blockchain.rs:93  the reward cap
MaxReward == 1000
\* blockchain.rs:159  the anomaly ceiling on "count"
CountCeiling == 500

\* Option: None is the empty sequence, Some(x) is <<x>>
None == <<>>
Some(x) == <<x>>
NoField == "absent"

\* serde_json::from_str on the proof_metadata strings the model submits:
\* each string stands for one JSON text, Json gives the Value it parses to
\* (ok = FALSE: the text is not JSON).
Json(metadata_json) ==
    CASE metadata_json = "tree3" ->
           [ok |-> TRUE, type |-> "tree_planting", count |-> Some(3),
            evidence |-> "http://img/ok", device_id |-> NoField,
            weight_kg |-> None, tons_captured |-> None]
      [] metadata_json = "tree600" ->
           [ok |-> TRUE, type |-> "tree_planting", count |-> Some(600),
            evidence |-> "http://img/ok", device_id |-> NoField,
            weight_kg |-> None, tons_captured |-> None]
      [] metadata_json = "tree2000" ->
           [ok |-> TRUE, type |-> "tree_planting", count |-> Some(2000),
            evidence |-> "http://img/ok", device_id |-> NoField,
            weight_kg |-> None, tons_captured |-> None]
      [] metadata_json = "treeFake" ->
           [ok |-> TRUE, type |-> "tree_planting", count |-> Some(3),
            evidence |-> "http://img/fake", device_id |-> NoField,
            weight_kg |-> None, tons_captured |-> None]
      [] metadata_json = "treeFake600" ->
           [ok |-> TRUE, type |-> "tree_planting", count |-> Some(600),
            evidence |-> "http://img/fake", device_id |-> NoField,
            weight_kg |-> None, tons_captured |-> None]
      [] metadata_json = "treeNoEvidence" ->
           [ok |-> TRUE, type |-> "tree_planting", count |-> Some(3),
            evidence |-> NoField, device_id |-> NoField,
            weight_kg |-> None, tons_captured |-> None]
      [] metadata_json = "aqiUnknown600" ->
           [ok |-> TRUE, type |-> "aqi_data", count |-> Some(600),
            evidence |-> NoField, device_id |-> "unknown-007",
            weight_kg |-> None, tons_captured |-> None]
      [] metadata_json = "aqiAlpha" ->
           [ok |-> TRUE, type |-> "aqi_data", count |-> None,
            evidence |-> NoField, device_id |-> "yuki-iot-alpha-001",
            weight_kg |-> None, tons_captured |-> None]
      [] metadata_json = "aqiUnknown" ->
           [ok |-> TRUE, type |-> "aqi_data", count |-> None,
            evidence |-> NoField, device_id |-> "unknown-007",
            weight_kg |-> None, tons_captured |-> None]
      [] metadata_json = "aqiNoDevice" ->
           [ok |-> TRUE, type |-> "aqi_data", count |-> None,
            evidence |-> NoField, device_id |-> NoField,
            weight_kg |-> None, tons_captured |-> None]
      [] metadata_json = "carbon75" ->
           [ok |-> TRUE, type |-> "carbon_capture", count |-> None,
            evidence |-> NoField, device_id |-> NoField,
            weight_kg |-> None, tons_captured |-> Some(75)]
      [] metadata_json = "plastic7" ->
           [ok |-> TRUE, type |-> "plastic_recycling", count |-> None,
            evidence |-> "http://img/ok", device_id |-> NoField,
            weight_kg |-> Some(7), tons_captured |-> None]
      [] metadata_json = "typeOther" ->
           [ok |-> TRUE, type |-> "other", count |-> Some(3),
            evidence |-> "http://img/ok", device_id |-> NoField,
            weight_kg |-> None, tons_captured |-> None]
      [] OTHER ->
           [ok |-> FALSE, type |-> NoField, count |-> None,
            evidence |-> NoField, device_id |-> NoField,
            weight_kg |-> None, tons_captured |-> None]

\* the metadata the state machine is driven with
Metas == {"tree3"}
\* the metadata the automated check is driven with ("notjson" is no JSON)
EngineMetas ==
    {"tree3", "tree600", "treeFake", "treeFake600", "treeNoEvidence",
     "aqiAlpha", "aqiUnknown", "aqiUnknown600", "aqiNoDevice", "carbon75",
     "typeOther", "notjson"}

calculate_reward(metadata_json) ==
    LET v == Json(metadata_json)
        reward ==
            IF ~v.ok THEN 1
            ELSE CASE v.type = "tree_planting" ->
                        (IF v.count = None THEN 1 ELSE v.count[1]) * 1
                   [] v.type = "plastic_recycling" ->
                        \* (weight * 0.5) as u64, weight 1.0 when absent
                        (IF v.weight_kg = None THEN 1 ELSE v.weight_kg[1]) \div 2
                   [] v.type = "aqi_data" -> 5
                   [] OTHER -> 1
    IN  IF reward > MaxReward THEN MaxReward ELSE reward

(***************************************************************************)
(* Transactions and blocks.                                                *)
(***************************************************************************)
Transaction_new(sender, receiver, amount, task, proof_metadata) ==
    [sender |-> sender, receiver |-> receiver, amount |-> amount,
     task |-> task, proof_metadata |-> proof_metadata,
     status |-> "PendingValidation"]

\* hash_data is SHA-256 of the formatted fields: modelled as an injective
\* function of them (no collisions).  A hash string is a tuple; the literal
\* "0" the genesis block names as its predecessor is Hash0.
Hash0 == <<"0">>
hash_data(index, timestamp, transactions, previous_hash) ==
    <<index, timestamp, transactions, previous_hash>>

\* Block::new, with the clock value it reads
Block_new(index, transactions, previous_hash, timestamp) ==
    [index |-> index, timestamp |-> timestamp, transactions |-> transactions,
     previous_hash |-> previous_hash,
     hash |-> hash_data(index, timestamp, transactions, previous_hash)]

\* Vec::remove(i), 1-based
Remove(s, i) == SubSeq(s, 1, i - 1) \o SubSeq(s, i + 1, Len(s))

\* Vec::retain(|t| t.task != task)
RetainNot(s, task) == SelectSeq(s, LAMBDA t : t.task # task)

\* iter().any(|t| t.task == task)
AnyTask(s, task) == \E i \in 1..Len(s) : s[i].task = task

\* iter().position(|t| t.task == task): the first index, 0 for None
Position(s, task) ==
    IF AnyTask(s, task)
    THEN CHOOSE i \in 1..Len(s) :
            s[i].task = task /\ \A j \in 1..(i - 1) : s[j].task # task
    ELSE 0

Last(s) == s[Len(s)]

(***************************************************************************)
(* The wallet file: the one part of the ledger written to disk.  A file is *)
(* the set of (address, balance) entries of the serialized map; no file    *)
(* and an unreadable file load as the empty map.                           *)
(***************************************************************************)
\* WalletManager::save_wallets: the file content it writes
save_wallets(self) == {<<a, self.wallets[a]>> : a \in DOMAIN self.wallets}

\* WalletManager::load_wallets
load_wallets(file) ==
    [a \in {entry[1] : entry \in file} |->
        (CHOOSE entry \in file : entry[1] = a)[2]]

(***************************************************************************)
(* Blockchain::new, started with the wallet file `file` on disk            *)
(***************************************************************************)
Blockchain_new(timestamp, file) ==
    [chain |-> <<Block_new(0, <<>>, Hash0, timestamp)>>,
     wallets |-> load_wallets(file),
     stake_amount |-> StakeAmount,
     tasks_for_validation |-> <<>>,
     tasks_for_mining |-> <<>>,
     authorized_devices |-> {"yuki-iot-alpha-001", "yuki-iot-beta-999"}]

\* Blockchain::create_wallet / WalletManager::create_wallet
create_wallet(self, address) ==
    [self EXCEPT !.wallets =
        [a \in DOMAIN self.wallets \cup {address} |->
            IF a = address THEN InitialBalance ELSE self.wallets[a]]]

(***************************************************************************)
(* The automated checks of the validation console.                         *)
(***************************************************************************)
\* image_url.contains(word), on the evidence URLs of Json
Contains(image_url, word) ==
    \/ word = "fake" /\ image_url = "http://img/fake"
    \/ word = "stock" /\ image_url = "http://img/stock"

\* Blockchain::run_ai_inference; the confidence is in percent
run_ai_inference(self, image_url, expected_type) ==
    IF Contains(image_url, "fake") \/ Contains(image_url, "stock")
    THEN <<5, "stock_photo_detected">>
    ELSE CASE expected_type = "tree_planting" -> <<98, "sapling_planted">>
           [] expected_type = "plastic_recycling" -> <<92, "plastic_waste">>
           [] OTHER -> <<50, "unknown_object">>

\* faulty variant: every device id is trusted
verify_iot_device_any(self, device_id) == TRUE

\* Blockchain::verify_iot_device
verify_iot_device(self, device_id) == device_id \in self.authorized_devices

\* faulty variant: the confidence of the inference is not tested
run_smart_security_check_any_confidence(self, metadata) ==
    LET task_type == metadata.type
        photo == task_type \in {"tree_planting", "plastic_recycling"}
    IN
    IF task_type = "aqi_data" /\ metadata.device_id = NoField
    THEN [passed |-> FALSE, msg |-> "MISSING ID"]
    ELSE IF task_type = "aqi_data"
            /\ ~verify_iot_device(self, metadata.device_id)
    THEN [passed |-> FALSE, msg |-> "UNAUTHORIZED DEVICE"]
    ELSE IF photo /\ metadata.evidence = NoField
    THEN [passed |-> FALSE, msg |-> "MISSING PROOF"]
    ELSE IF metadata.count # None /\ metadata.count[1] > CountCeiling
    THEN [passed |-> FALSE, msg |-> "ANOMALY"]
    ELSE [passed |-> TRUE, msg |-> "Automated Checks Passed"]

\* Blockchain::run_smart_security_check on a parsed Value
run_smart_security_check(self, metadata) ==
    LET task_type == metadata.type
        photo == task_type \in {"tree_planting", "plastic_recycling"}
    IN
    IF task_type = "aqi_data" /\ metadata.device_id = NoField
    THEN [passed |-> FALSE, msg |-> "MISSING ID"]
    ELSE IF task_type = "aqi_data"
            /\ ~verify_iot_device(self, metadata.device_id)
    THEN [passed |-> FALSE, msg |-> "UNAUTHORIZED DEVICE"]
    ELSE IF photo /\ metadata.evidence = NoField
    THEN [passed |-> FALSE, msg |-> "MISSING PROOF"]
    ELSE IF photo
            /\ run_ai_inference(self, metadata.evidence, task_type)[1] < 70
    THEN [passed |-> FALSE, msg |-> "AI REJECTION"]
    ELSE IF metadata.count # None /\ metadata.count[1] > CountCeiling
    THEN [passed |-> FALSE, msg |-> "ANOMALY"]
    ELSE [passed |-> TRUE, msg |-> "Automated Checks Passed"]

\* blockchain.rs:212-226: the check of one pending task; text that is not
\* JSON is not checked and passes
auto_check(self, task) ==
    LET v == Json(task.proof_metadata) IN
    IF v.ok THEN run_smart_security_check(self, v)
    ELSE [passed |-> TRUE, msg |-> ""]

(***************************************************************************)
(* Blockchain::submit_task                                                 *)
(***************************************************************************)
\* faulty variant: the stake is withheld without the test of the balance
submit_task_unchecked(self, wallet_address, task, proof_metadata) ==
    IF wallet_address \in DOMAIN self.wallets
    THEN LET transaction ==
                 Transaction_new(wallet_address, "System-Reward-Pool",
                                 calculate_reward(proof_metadata), task,
                                 proof_metadata)
         IN  [self |->
                [self EXCEPT
                   !.wallets[wallet_address] = @ - self.stake_amount,
                   !.tasks_for_validation = Append(@, transaction)],
              ret |-> Some(transaction)]
    ELSE [self |-> self, ret |-> None]

submit_task(self, wallet_address, task, proof_metadata) ==
    IF wallet_address \in DOMAIN self.wallets
    THEN IF self.wallets[wallet_address] < self.stake_amount
         THEN [self |-> self, ret |-> None]
         ELSE LET calculated_reward == calculate_reward(proof_metadata)
                  transaction ==
                      Transaction_new(wallet_address, "System-Reward-Pool",
                                      calculated_reward, task, proof_metadata)
              IN  [self |->
                     [self EXCEPT
                        !.wallets[wallet_address] = @ - self.stake_amount,
                        !.tasks_for_validation = Append(@, transaction)],
                   ret |-> Some(transaction)]
    ELSE [self |-> self, ret |-> None]

(***************************************************************************)
(* Blockchain::validate_pending_tasks.  The pass walks the pool from its   *)
(* last index to its first.  For each entry it runs the automated check,   *)
(* prints the check's report and recommendation, and reads one console     *)
(* line: choice[i] is the line read for entry i ("a" approve, "r" reject,  *)
(* anything else skips).  The check only recommends; the line read         *)
(* decides.  printed collects what the pass wrote to the console: per      *)
(* entry visited, the task id, the proof metadata shown, the check's        *)
(* report and whether the recommendation was APPROVE.                      *)
(***************************************************************************)
\* one iteration of the for loop (blockchain.rs:204-258): entry i, the
\* console line read for it
ValidateEntry(self, results, i, line, printed) ==
    LET task == self.tasks_for_validation[i]
        auto_check_passed == auto_check(self, task).passed
        auto_check_msg == auto_check(self, task).msg
        report == Append(printed,
                         [task |-> task.task,
                          proof_metadata |-> task.proof_metadata,
                          report |-> auto_check_msg,
                          approve |-> auto_check_passed])
    IN
    CASE line = "a" ->
           LET validated_task == [task EXCEPT !.status = "Validated"] IN
           [self |-> [self EXCEPT
                        !.tasks_for_validation = Remove(@, i),
                        !.tasks_for_mining = Append(@, validated_task)],
            ret |-> Append(results, <<validated_task.task, validated_task.status>>),
            printed |-> report]
      [] line = "r" ->
           [self |-> [self EXCEPT !.tasks_for_validation = Remove(@, i)],
            ret |-> Append(results, <<task.task, "Rejected">>),
            printed |-> report]
      [] OTHER -> [self |-> self, ret |-> results, printed |-> report]

RECURSIVE ValidateFrom(_, _, _, _, _)
ValidateFrom(self, results, i, choice, printed) ==
    IF i = 0 THEN [self |-> self, ret |-> results, printed |-> printed]
    ELSE LET r == ValidateEntry(self, results, i, choice[i], printed) IN
         ValidateFrom(r.self, r.ret, i - 1, choice, r.printed)

validate_pending_tasks(self, choice) ==
    IF Len(self.tasks_for_validation) = 0
    THEN [self |-> self, ret |-> <<>>, printed |-> <<>>]
    ELSE ValidateFrom(self, <<>>, Len(self.tasks_for_validation), choice, <<>>)

(***************************************************************************)
(* Blockchain::mine_block                                                  *)
(***************************************************************************)
\* faulty variant: the reward is credited without the stake refund
Credit_reward_only(self, task) == task.amount

\* the credit of one drained task (blockchain.rs:272)
Credit(self, task) == task.amount + self.stake_amount

\* one iteration of the while-let loop (blockchain.rs:270-276): pops
\* tasks_for_mining from its end; a task whose sender has no local wallet
\* is popped and not kept
MinePop(self, transactions_for_block) ==
    LET task == Last(self.tasks_for_mining)
        popped == [self EXCEPT !.tasks_for_mining = SubSeq(@, 1, Len(@) - 1)]
    IN  IF task.sender \in DOMAIN self.wallets
        THEN [self |-> [popped EXCEPT
                          !.wallets[task.sender] = @ + Credit(self, task)],
              txs |-> Append(transactions_for_block,
                             [task EXCEPT !.receiver = task.sender])]
        ELSE [self |-> popped, txs |-> transactions_for_block]

RECURSIVE MineLoop(_, _)
MineLoop(self, transactions_for_block) ==
    IF Len(self.tasks_for_mining) = 0
    THEN [self |-> self, txs |-> transactions_for_block]
    ELSE LET d == MinePop(self, transactions_for_block) IN
         MineLoop(d.self, d.txs)

\* faulty variant: a block is built whatever the pool holds
mine_block_always(self, timestamp) ==
    LET d == MineLoop(self, <<>>)
        previous_block == Last(d.self.chain)
        new_block == Block_new(previous_block.index + 1, d.txs,
                               previous_block.hash, timestamp)
    IN  [self |-> [d.self EXCEPT !.chain = Append(@, new_block)],
         ret |-> Some(new_block)]

\* faulty variant: the new block takes the place of the tip
mine_block_replacing_tip(self, timestamp) ==
    IF Len(self.tasks_for_mining) = 0
    THEN [self |-> self, ret |-> None]
    ELSE LET d == MineLoop(self, <<>>) IN
         IF Len(d.txs) = 0
         THEN [self |-> d.self, ret |-> None]
         ELSE LET previous_block == Last(d.self.chain)
                  new_block == Block_new(previous_block.index + 1, d.txs,
                                         previous_block.hash, timestamp)
              IN  [self |-> [d.self EXCEPT !.chain =
                               Append(SubSeq(@, 1, Len(@) - 1), new_block)],
                   ret |-> Some(new_block)]

\* faulty variant: the new block repeats the index of the tip
mine_block_same_index(self, timestamp) ==
    IF Len(self.tasks_for_mining) = 0
    THEN [self |-> self, ret |-> None]
    ELSE LET d == MineLoop(self, <<>>) IN
         IF Len(d.txs) = 0
         THEN [self |-> d.self, ret |-> None]
         ELSE LET previous_block == Last(d.self.chain)
                  new_block == Block_new(previous_block.index, d.txs,
                                         previous_block.hash, timestamp)
              IN  [self |-> [d.self EXCEPT !.chain = Append(@, new_block)],
                   ret |-> Some(new_block)]

\* after the loop (blockchain.rs:278-290): nothing kept, no block;
\* otherwise the block is built on the tip and pushed
MineSeal(self, transactions_for_block, timestamp) ==
    IF Len(transactions_for_block) = 0
    THEN [self |-> self, ret |-> None]
    ELSE LET previous_block == Last(self.chain)
             new_block == Block_new(previous_block.index + 1,
                                    transactions_for_block,
                                    previous_block.hash, timestamp)
         IN  [self |-> [self EXCEPT !.chain = Append(@, new_block)],
              ret |-> Some(new_block)]

mine_block(self, timestamp) ==
    IF Len(self.tasks_for_mining) = 0
    THEN [self |-> self, ret |-> None]
    ELSE LET d == MineLoop(self, <<>>) IN
         MineSeal(d.self, d.txs, timestamp)

(***************************************************************************)
(* The peer-message handlers.                                              *)
(***************************************************************************)
\* faulty variant: only tasks_for_mining is pruned
RECURSIVE RetainAll_mining_only(_, _, _)
RetainAll_mining_only(self, transactions, k) ==
    IF k > Len(transactions) THEN self
    ELSE RetainAll_mining_only(
            [self EXCEPT
               !.tasks_for_mining = RetainNot(@, transactions[k].task)],
            transactions, k + 1)

\* the for loop of add_block_from_network over block.transactions
RECURSIVE RetainAll(_, _, _)
RetainAll(self, transactions, k) ==
    IF k > Len(transactions) THEN self
    ELSE RetainAll(
            [self EXCEPT
               !.tasks_for_mining = RetainNot(@, transactions[k].task),
               !.tasks_for_validation = RetainNot(@, transactions[k].task)],
            transactions, k + 1)

\* faulty variant: the block is appended without the previous_hash test
add_block_from_network_unchecked(self, block) ==
    [RetainAll(self, block.transactions, 1) EXCEPT !.chain = Append(@, block)]

\* faulty variant: the block's index is tested in place of its previous_hash
add_block_from_network_by_index(self, block) ==
    IF block.index = Last(self.chain).index + 1
    THEN [RetainAll(self, block.transactions, 1) EXCEPT
             !.chain = Append(@, block)]
    ELSE self

\* faulty variant: previous_hash may name any block of the chain
add_block_from_network_fork(self, block) ==
    IF \E n \in 1..Len(self.chain) : block.previous_hash = self.chain[n].hash
    THEN [RetainAll(self, block.transactions, 1) EXCEPT
             !.chain = Append(@, block)]
    ELSE self

\* the wallets with amount + stake_amount added per transaction of txs
\* whose sender has a wallet
RECURSIVE Settled(_, _, _)
Settled(self, txs, k) ==
    IF k > Len(txs) THEN self
    ELSE Settled(
            IF txs[k].sender \in DOMAIN self.wallets
            THEN [self EXCEPT !.wallets[txs[k].sender] = @ + Credit(self, txs[k])]
            ELSE self,
            txs, k + 1)

\* faulty variant: a block that competes with the tip (same index, built
\* on the tip's predecessor) takes the tip's place
add_block_from_network_adopting(self, block) ==
    LET previous_block == Last(self.chain) IN
    IF block.previous_hash = previous_block.hash
    THEN [RetainAll(self, block.transactions, 1) EXCEPT
             !.chain = Append(@, block)]
    ELSE IF block.index = previous_block.index
              /\ block.previous_hash = previous_block.previous_hash
         THEN [self EXCEPT !.chain =
                  Append(SubSeq(@, 1, Len(@) - 1), block)]
         ELSE self

\* faulty variant: an accepted block pays the senders of its transactions
add_block_from_network_crediting(self, block) ==
    LET previous_block == Last(self.chain) IN
    IF block.previous_hash = previous_block.hash
    THEN [Settled(RetainAll(self, block.transactions, 1),
                  block.transactions, 1) EXCEPT
             !.chain = Append(@, block)]
    ELSE self

add_block_from_network(self, block) ==
    LET previous_block == Last(self.chain) IN
    IF block.previous_hash = previous_block.hash
    THEN [RetainAll(self, block.transactions, 1) EXCEPT
             !.chain = Append(@, block)]
    ELSE self

\* faulty variant: the task is pushed without the test of the pools
add_task_from_network_always(self, tx) ==
    [self EXCEPT !.tasks_for_validation = Append(@, tx)]

\* faulty variant: the stake is withheld again from a local sender
add_task_from_network_staking(self, tx) ==
    IF ~AnyTask(self.tasks_for_validation, tx.task)
       /\ ~AnyTask(self.tasks_for_mining, tx.task)
    THEN IF tx.sender \in DOMAIN self.wallets
            /\ self.wallets[tx.sender] >= self.stake_amount
         THEN [self EXCEPT !.tasks_for_validation = Append(@, tx),
                           !.wallets[tx.sender] = @ - self.stake_amount]
         ELSE [self EXCEPT !.tasks_for_validation = Append(@, tx)]
    ELSE self

add_task_from_network(self, tx) ==
    IF ~AnyTask(self.tasks_for_validation, tx.task)
       /\ ~AnyTask(self.tasks_for_mining, tx.task)
    THEN [self EXCEPT !.tasks_for_validation = Append(@, tx)]
    ELSE self

\* faulty variant: a Validated task is removed and not pushed for mining
update_task_status_from_network_drop(self, task_id, status) ==
    LET pos == Position(self.tasks_for_validation, task_id) IN
    IF pos # 0 /\ status \in {"Validated", "Rejected"}
    THEN [self EXCEPT !.tasks_for_validation = Remove(@, pos)]
    ELSE self

update_task_status_from_network(self, task_id, status) ==
    LET pos == Position(self.tasks_for_validation, task_id) IN
    IF pos # 0
    THEN CASE status = "Validated" ->
                [self EXCEPT
                   !.tasks_for_mining =
                       Append(@, self.tasks_for_validation[pos]),
                   !.tasks_for_validation = Remove(@, pos)]
           [] status = "Rejected" ->
                [self EXCEPT !.tasks_for_validation = Remove(@, pos)]
           [] OTHER -> self
    ELSE self

(***************************************************************************)
(* The messages peers publish (main.rs:138-180 on a peer).                 *)
(***************************************************************************)
Statuses == {"Validated", "Rejected"}

\* New-task: the Transaction a peer's submit_task returned
NetTasks(W, T, M) ==
    {Transaction_new(w, "System-Reward-Pool", calculate_reward(m), t, m) :
        w \in W, t \in T, m \in M}

\* Validation-result: one entry of a peer's validate_pending_tasks result
NetResults(T) == T \X Statuses

\* a transaction as a peer's mine_block embeds it
MinedTx(w, t, m) ==
    [Transaction_new(w, "System-Reward-Pool", calculate_reward(m), t, m)
        EXCEPT !.receiver = w, !.status = "Validated"]

\* the transaction lists of the peer blocks explored: one task, or both
\* tasks of one sender
NetBlockTxs(W, M) ==
    {<<MinedTx(w, t, m)>> : w \in W, t \in Tasks, m \in M}
    \cup {<<MinedTx(w, "t1", m), MinedTx(w, "t2", m)>> : w \in W, m \in M}

\* the genesis block of a peer whose process started at another second
PeerGenesis == Block_new(0, <<>>, Hash0, MaxTime + 1)

\* New-block: a block a peer mined on top of a block p, which is a block of
\* this node's chain (the tip, or a stale one) or a block this node never
\* held
NetBlocks(self, W, M) ==
    {Block_new(p.index + 1, txs, p.hash, ts) :
        p \in {self.chain[i] : i \in 1..Len(self.chain)} \cup {PeerGenesis},
        txs \in NetBlockTxs(W, M), ts \in Times}

PoolSize(self) == Len(self.tasks_for_validation) + Len(self.tasks_for_mining)

\* the state stays inside the bounds B
InBounds(self, B) == PoolSize(self) <= B.pool /\ Len(self.chain) <= B.chain
PoolBounds == [pool |-> MaxPool, chain |-> MaxChain]
ChainBounds == [pool |-> SmallPool, chain |-> LongChain]
EngineBounds == [pool |-> SmallPool, chain |-> MaxChain]

(***************************************************************************)
(* The state machine: one action per console command or peer message.      *)
(*                                                                         *)
(* Each action ends with H, the step of the history variable slashed.      *)
(*                                                                         *)
(* last names the operation, the key of its input (the task id of a        *)
(* submission or task message, the pair of a validation result, the hash   *)
(* of a block message with the number of pool entries it removed, the      *)
(* outcomes a validation pass returned), whether the ledger changed and    *)
(* what a validation pass printed.                                         *)
(*                                                                         *)
(* slashed is kept by SpecSlash alone (TrackSlashed): it holds a task id   *)
(* from the step that rejects it, leaving no entry of that id in the       *)
(* pools, until a local submission withholds a new stake under that id.    *)
(***************************************************************************)
Did(op, key, self) ==
    last' = [op |-> op, key |-> key, changed |-> self # blockchain,
             printed |-> <<>>]

Pooled(self, task) ==
    AnyTask(self.tasks_for_validation, task) \/ AnyTask(self.tasks_for_mining, task)

\* the task ids among the outcomes `results` reports Rejected that `self`
\* no longer pools
Forfeited(self, results) ==
    {results[i][1] : i \in {j \in 1..Len(results) :
        results[j][2] = "Rejected" /\ ~Pooled(self, results[j][1])}}

\* the dispatcher is at its select!, no handler in progress
Idle ==
    [pc |-> "select", start |-> <<>>, i |-> 0, results |-> <<>>,
     printed |-> <<>>, lines |-> <<>>, txs |-> <<>>]

\* no stake withheld, no credit paid
NoCustody ==
    [withheld |-> [k \in Addresses \X Tasks |-> 0],
     credited |-> [k \in Addresses \X Tasks |-> 0]]

\* nothing handed to publish
Nothing == [msgs |-> <<>>, ok |-> TRUE]

Init ==
    /\ wallet_file = {}
    /\ \E ts \in Times : blockchain = Blockchain_new(ts, wallet_file)
    /\ last = [op |-> "new", key |-> <<>>, changed |-> FALSE,
               printed |-> <<>>]
    /\ slashed = {}
    /\ handler = Idle
    /\ published = Nothing
    /\ custody = NoCustody

\* main.rs:158  console "6"
CreateWallet(W, H) ==
    \E a \in W \ DOMAIN blockchain.wallets :
        LET self == create_wallet(blockchain, a) IN
        /\ blockchain' = self
        /\ wallet_file' = save_wallets(self)
        /\ Did("create_wallet", <<a>>, self)
        /\ H

\* main.rs:138  console "1"
Submit(W, T, M, B, H) ==
    \E w \in W, t \in T, m \in M :
        LET r == submit_task(blockchain, w, t, m) IN
        /\ InBounds(r.self, B)
        /\ blockchain' = r.self
        /\ wallet_file' = IF r.ret # None THEN save_wallets(r.self)
                          ELSE wallet_file
        /\ Did("submit", <<t>>, r.self)
        /\ H

\* api.rs:50-60  POST /submit
SubmitApi(W, T, M, B, H) ==
    \E w \in W, t \in T, m \in M :
        LET r == submit_task(blockchain, w, t, m) IN
        /\ InBounds(r.self, B)
        /\ blockchain' = r.self
        /\ wallet_file' = IF r.ret # None THEN save_wallets(r.self)
                          ELSE wallet_file
        /\ Did("submit_api", <<t>>, r.self)
        /\ H

\* main.rs:163  console "7"
Validate(H) ==
    \E choice \in [1..Len(blockchain.tasks_for_validation) -> {"a", "r", "s"}] :
        LET r == validate_pending_tasks(blockchain, choice) IN
        /\ blockchain' = r.self
        /\ wallet_file' =
              IF \E k \in 1..Len(r.ret) : r.ret[k][2] = "Rejected"
              THEN save_wallets(r.self) ELSE wallet_file
        /\ last' = [op |-> "validate", key |-> r.ret,
                    changed |-> r.self # blockchain, printed |-> r.printed]
        /\ H

\* main.rs:173  console "8"
Mine(B, H) ==
    \E ts \in Times :
        LET r == mine_block(blockchain, ts) IN
        /\ InBounds(r.self, B)
        /\ blockchain' = r.self
        /\ wallet_file' = IF r.ret # None THEN save_wallets(r.self)
                          ELSE wallet_file
        /\ Did("mine", r.ret # None, r.self)
        /\ H

\* main.rs:204
NewBlock(W, M, B, H) ==
    \E b \in NetBlocks(blockchain, W, M) :
        LET self == add_block_from_network(blockchain, b) IN
        /\ InBounds(self, B)
        /\ blockchain' = self
        /\ wallet_file' = IF b.previous_hash = Last(blockchain.chain).hash
                          THEN save_wallets(self) ELSE wallet_file
        /\ Did("new_block",
               <<b.hash, PoolSize(blockchain) - PoolSize(self)>>, self)
        /\ H

\* main.rs:205
NewTask(W, T, M, B, H) ==
    \E tx \in NetTasks(W, T, M) :
        LET self == add_task_from_network(blockchain, tx) IN
        /\ InBounds(self, B)
        /\ blockchain' = self
        /\ UNCHANGED wallet_file
        /\ Did("new_task", <<tx.task>>, self)
        /\ H

\* main.rs:206
ValidationResult(T, H) ==
    \E res \in NetResults(T) :
        LET self == update_task_status_from_network(blockchain, res[1], res[2]) IN
        /\ blockchain' = self
        /\ UNCHANGED wallet_file
        /\ Did("validation_result", res, self)
        /\ H

\* main.rs:23 run again: the process was stopped (console "11", end of
\* input, a kill) and started; only the wallet file is read back.  The
\* new process may start in a later second than any before.
Restart(H) ==
    \E ts \in Times \cup {MaxTime + 1} :
        LET self == Blockchain_new(ts, wallet_file) IN
        /\ \A entry \in wallet_file : entry[2] <= MaxBalance
        /\ blockchain' = self
        /\ UNCHANGED wallet_file
        /\ Did("restart", <<>>, self)
        /\ H

TrackSlashed ==
    /\ slashed' =
          CASE last'.op = "submit" /\ last'.changed -> slashed \ {last'.key[1]}
            [] last'.op = "validate" ->
                  slashed \cup Forfeited(blockchain', last'.key)
            [] last'.op = "validation_result" /\ last'.changed ->
                  slashed \cup Forfeited(blockchain', <<last'.key>>)
            [] OTHER -> slashed
    /\ UNCHANGED <<handler, published, custody>>

\* the transactions of txs sent by wallet k[1] under task id k[2]
CountOf(txs, k) ==
    Cardinality({n \in 1..Len(txs) :
        txs[n].sender = k[1] /\ txs[n].task = k[2]})

\* blockchain.rs:176 and 272: a successful submit_task withholds one stake
\* from the sender of the transaction it pushed; a mine_block that built a
\* block credited the sender of each transaction of that block
TrackCustody ==
    /\ custody' =
          CASE last'.op = "submit" /\ last'.changed ->
                 LET tx == Last(blockchain'.tasks_for_validation) IN
                 [custody EXCEPT !.withheld[<<tx.sender, tx.task>>] = @ + 1]
            [] last'.op = "mine" /\ last'.key ->
                 [custody EXCEPT !.credited =
                    [k \in Addresses \X Tasks |->
                       @[k] + CountOf(Last(blockchain'.chain).transactions, k)]]
            [] OTHER -> custody
    /\ UNCHANGED <<slashed, handler, published>>

\* the pools in full, a chain of at most one mined block
Next ==
    \/ CreateWallet(Addresses, UNCHANGED <<slashed, handler, published, custody>>)
    \/ Submit(Addresses, Tasks, Metas, PoolBounds, UNCHANGED <<slashed, handler, published, custody>>)
    \/ Validate(UNCHANGED <<slashed, handler, published, custody>>)
    \/ Mine(PoolBounds, UNCHANGED <<slashed, handler, published, custody>>)
    \/ NewBlock(Addresses, Metas, PoolBounds, UNCHANGED <<slashed, handler, published, custody>>)
    \/ NewTask(Addresses, Tasks, Metas, PoolBounds, UNCHANGED <<slashed, handler, published, custody>>)
    \/ ValidationResult(Tasks, UNCHANGED <<slashed, handler, published, custody>>)

Spec == Init /\ [][Next]_vars

\* a longer chain, one pooled task at a time
NextChain ==
    \/ CreateWallet(Addresses, UNCHANGED <<slashed, handler, published, custody>>)
    \/ Submit(Addresses, Tasks, Metas, ChainBounds, UNCHANGED <<slashed, handler, published, custody>>)
    \/ Validate(UNCHANGED <<slashed, handler, published, custody>>)
    \/ Mine(ChainBounds, UNCHANGED <<slashed, handler, published, custody>>)
    \/ NewBlock(Addresses, Metas, ChainBounds, UNCHANGED <<slashed, handler, published, custody>>)
    \/ NewTask(Addresses, Tasks, Metas, ChainBounds, UNCHANGED <<slashed, handler, published, custody>>)
    \/ ValidationResult(Tasks, UNCHANGED <<slashed, handler, published, custody>>)

SpecChain == Init /\ [][NextChain]_vars

\* Spec with the history of forfeited stakes
NextSlash ==
    \/ CreateWallet(Addresses, TrackSlashed)
    \/ Submit(Addresses, Tasks, Metas, PoolBounds, TrackSlashed)
    \/ Validate(TrackSlashed)
    \/ Mine(PoolBounds, TrackSlashed)
    \/ NewBlock(Addresses, Metas, PoolBounds, TrackSlashed)
    \/ NewTask(Addresses, Tasks, Metas, PoolBounds, TrackSlashed)
    \/ ValidationResult(Tasks, TrackSlashed)

SpecSlash == Init /\ [][NextSlash]_vars

\* Spec with the history of withheld stakes and paid credits
NextCustody ==
    \/ CreateWallet(Addresses, TrackCustody)
    \/ Submit(Addresses, Tasks, Metas, PoolBounds, TrackCustody)
    \/ Validate(TrackCustody)
    \/ Mine(PoolBounds, TrackCustody)
    \/ NewBlock(Addresses, Metas, PoolBounds, TrackCustody)
    \/ NewTask(Addresses, Tasks, Metas, PoolBounds, TrackCustody)
    \/ ValidationResult(Tasks, TrackCustody)

SpecCustody == Init /\ [][NextCustody]_vars

\* restarts of the process, one pooled task at a time
NextRestart ==
    \/ CreateWallet(Addresses, UNCHANGED <<slashed, handler, published, custody>>)
    \/ Submit(Addresses, Tasks, Metas, EngineBounds, UNCHANGED <<slashed, handler, published, custody>>)
    \/ Validate(UNCHANGED <<slashed, handler, published, custody>>)
    \/ Mine(EngineBounds, UNCHANGED <<slashed, handler, published, custody>>)
    \/ NewBlock(Addresses, Metas, EngineBounds, UNCHANGED <<slashed, handler, published, custody>>)
    \/ NewTask(Addresses, Tasks, Metas, EngineBounds, UNCHANGED <<slashed, handler, published, custody>>)
    \/ ValidationResult(Tasks, UNCHANGED <<slashed, handler, published, custody>>)
    \/ Restart(UNCHANGED <<slashed, handler, published, custody>>)

SpecRestart == Init /\ [][NextRestart]_vars

\* every kind of proof metadata, one task id, one pooled task at a time
NextEngine ==
    \/ CreateWallet(Addresses, UNCHANGED <<slashed, handler, published, custody>>)
    \/ Submit(Addresses, {"t1"}, EngineMetas, EngineBounds, UNCHANGED <<slashed, handler, published, custody>>)
    \/ Validate(UNCHANGED <<slashed, handler, published, custody>>)
    \/ Mine(EngineBounds, UNCHANGED <<slashed, handler, published, custody>>)
    \/ NewBlock(Addresses, Metas, EngineBounds, UNCHANGED <<slashed, handler, published, custody>>)
    \/ NewTask(Addresses, {"t1"}, EngineMetas, EngineBounds, UNCHANGED <<slashed, handler, published, custody>>)
    \/ ValidationResult({"t1"}, UNCHANGED <<slashed, handler, published, custody>>)

SpecEngine == Init /\ [][NextEngine]_vars

(***************************************************************************)
(* The dispatcher loop step by step.  A validation pass blocks on one      *)
(* console line per entry and mine_block pops one task per iteration; the  *)
(* select! of main.rs is polled again only when the handler it started has *)
(* returned.  handler.start is the ledger when the handler began,          *)
(* handler.lines the console lines the pass has read, in reading order.    *)
(***************************************************************************)
\* faulty variant: events are taken while a handler is still running
Ready_always == TRUE

\* main.rs:46  the loop is back at its select! (api.rs:54: the lock on
\* the ledger is free)
Ready == handler.pc = "select"

\* main.rs:163  console "7" taken; blockchain.rs:198-201 returns at once
\* on an empty pool
BeginValidate ==
    /\ Ready
    /\ UNCHANGED <<blockchain, wallet_file, slashed, published, custody>>
    /\ IF Len(blockchain.tasks_for_validation) = 0
       THEN /\ handler' = Idle
            /\ last' = [op |-> "validate", key |-> <<>>, changed |-> FALSE,
                        printed |-> <<>>]
       ELSE /\ handler' = [Idle EXCEPT
                             !.pc = "validate", !.start = blockchain,
                             !.i = Len(blockchain.tasks_for_validation)]
            /\ last' = [op |-> "validating", key |-> <<>>, changed |-> FALSE,
                        printed |-> <<>>]

\* blockchain.rs:204-258  one entry of the pass; indexing past the end of
\* the pool panics (blockchain.rs:205)
ValidateStep ==
    /\ handler.pc = "validate"
    /\ handler.i > 0
    /\ handler.i <= Len(blockchain.tasks_for_validation)
    /\ \E line \in {"a", "r", "s"} :
          LET r == ValidateEntry(blockchain, handler.results, handler.i,
                                 line, handler.printed) IN
          /\ blockchain' = r.self
          /\ wallet_file' = IF line = "r" THEN save_wallets(r.self)
                            ELSE wallet_file
          /\ handler' = [handler EXCEPT
                           !.i = @ - 1, !.results = r.ret,
                           !.printed = r.printed, !.lines = Append(@, line)]
          /\ last' = [op |-> "validating", key |-> <<>>,
                      changed |-> r.self # blockchain, printed |-> <<>>]
    /\ UNCHANGED <<slashed, published, custody>>

\* blockchain.rs:259  the pass returns its results (main.rs:164-170
\* publishes them)
EndValidate ==
    /\ handler.pc = "validate"
    /\ handler.i = 0
    /\ handler' = Idle
    /\ last' = [op |-> "validate", key |-> handler.results,
                changed |-> blockchain # handler.start,
                printed |-> handler.printed]
    /\ UNCHANGED <<blockchain, wallet_file, slashed, published, custody>>

\* main.rs:173  console "8" taken; blockchain.rs:263-266 returns at once
\* on an empty pool
BeginMine(B) ==
    /\ Ready
    /\ Len(blockchain.chain) < B.chain
    /\ UNCHANGED <<blockchain, wallet_file, slashed, published, custody>>
    /\ IF Len(blockchain.tasks_for_mining) = 0
       THEN /\ handler' = Idle
            /\ last' = [op |-> "mine", key |-> FALSE, changed |-> FALSE,
                        printed |-> <<>>]
       ELSE /\ handler' = [Idle EXCEPT !.pc = "mine", !.start = blockchain]
            /\ last' = [op |-> "mining", key |-> <<>>, changed |-> FALSE,
                        printed |-> <<>>]

\* blockchain.rs:270-276  one task popped
MineStep ==
    /\ handler.pc = "mine"
    /\ Len(blockchain.tasks_for_mining) > 0
    /\ LET d == MinePop(blockchain, handler.txs) IN
       /\ blockchain' = d.self
       /\ handler' = [handler EXCEPT !.txs = d.txs]
       /\ last' = [op |-> "mining", key |-> <<>>, changed |-> TRUE,
                   printed |-> <<>>]
    /\ UNCHANGED <<wallet_file, slashed, published, custody>>

\* blockchain.rs:278-290  the loop is over
EndMine ==
    /\ handler.pc = "mine"
    /\ Len(blockchain.tasks_for_mining) = 0
    /\ \E ts \in Times :
          LET r == MineSeal(blockchain, handler.txs, ts) IN
          /\ blockchain' = r.self
          /\ wallet_file' = IF r.ret # None THEN save_wallets(r.self)
                            ELSE wallet_file
          /\ last' = [op |-> "mine", key |-> r.ret # None,
                      changed |-> r.self # handler.start, printed |-> <<>>]
    /\ handler' = Idle
    /\ UNCHANGED <<slashed, published, custody>>

\* the console commands and the peer messages, taken when the loop is at
\* its select!
NextDispatch ==
    \/ CreateWallet(Addresses, Ready /\ UNCHANGED <<slashed, handler, published, custody>>)
    \/ Submit(Addresses, Tasks, Metas, PoolBounds,
              Ready /\ UNCHANGED <<slashed, handler, published, custody>>)
    \/ SubmitApi(Addresses, Tasks, Metas, PoolBounds,
                 Ready /\ UNCHANGED <<slashed, handler, published, custody>>)
    \/ BeginValidate
    \/ ValidateStep
    \/ EndValidate
    \/ BeginMine(PoolBounds)
    \/ MineStep
    \/ EndMine
    \/ NewBlock(Addresses, Metas, PoolBounds,
                Ready /\ UNCHANGED <<slashed, handler, published, custody>>)
    \/ NewTask(Addresses, Tasks, Metas, PoolBounds,
               Ready /\ UNCHANGED <<slashed, handler, published, custody>>)
    \/ ValidationResult(Tasks, Ready /\ UNCHANGED <<slashed, handler, published, custody>>)

SpecDispatch == Init /\ [][NextDispatch]_vars

(***************************************************************************)
(* What each call site publishes.  The console arms of main.rs hand a      *)
(* message to gossipsub.publish for what the operation returned; an Err    *)
(* of publish is printed and nothing else happens (main.rs:141-143,        *)
(* 167-169, 176-178).  The peer arms (main.rs:204-206) and the request     *)
(* handler (api.rs:55-59) publish nothing: the handler has no swarm.       *)
(***************************************************************************)
\* main.rs:139, 165, 174  NetworkMessage::Transaction / ValidationResult /
\* Block
Transaction(tx) == [kind |-> "Transaction", body |-> tx]
ValidationResultMsg(res) == [kind |-> "ValidationResult", body |-> res]
Block(b) == [kind |-> "Block", body |-> b]

\* main.rs:138-180  the messages of the console operation that made this
\* step
Outbound ==
    CASE last'.op = "submit" /\ last'.changed ->
            <<Transaction(Last(blockchain'.tasks_for_validation))>>
      [] last'.op = "validate" ->
            [k \in 1..Len(last'.key) |-> ValidationResultMsg(last'.key[k])]
      [] last'.op = "mine" /\ last'.key ->
            <<Block(Last(blockchain'.chain))>>
      [] OTHER -> <<>>

Broadcast ==
    /\ \E ok \in (IF Outbound = <<>> THEN {TRUE} ELSE BOOLEAN) :
          published' = [msgs |-> Outbound, ok |-> ok]
    /\ UNCHANGED <<slashed, handler, custody>>

Silent ==
    /\ published' = Nothing
    /\ UNCHANGED <<slashed, handler, custody>>

\* the console, the request handler and the peers, with what is published
NextBroadcast ==
    \/ CreateWallet(Addresses, Broadcast)
    \/ Submit(Addresses, Tasks, Metas, PoolBounds, Broadcast)
    \/ SubmitApi(Addresses, Tasks, Metas, PoolBounds, Silent)
    \/ Validate(Broadcast)
    \/ Mine(PoolBounds, Broadcast)
    \/ NewBlock(Addresses, Metas, PoolBounds, Silent)
    \/ NewTask(Addresses, Tasks, Metas, PoolBounds, Silent)
    \/ ValidationResult(Tasks, Silent)

SpecBroadcast == Init /\ [][NextBroadcast]_vars

(***************************************************************************)
(* The claims.                                                             *)
(***************************************************************************)
chain == blockchain.chain
wallets == blockchain.wallets
tasks_for_validation == blockchain.tasks_for_validation
tasks_for_mining == blockchain.tasks_for_mining
Tip == Last(chain)

\* C1: in every reachable state every adjacent pair of blocks of the local
\* chain is linked: chain[i+1].previous_hash = chain[i].hash.
C1_ChainIntegrity ==
    \A i \in 1..(Len(chain) - 1) : chain[i + 1].previous_hash = chain[i].hash

\* a chain of a mined or received block with a received block on top
C1_Witness ==
    /\ Len(chain) = LongChain
    /\ last.op = "new_block" /\ last.changed
    /\ Tip.previous_hash = chain[Len(chain) - 1].hash

\* what the transactions of `pool` sent by wallet w are owed: for each, its
\* amount and the stake
RECURSIVE Owed(_, _, _)
Owed(pool, w, stake) ==
    IF Len(pool) = 0 THEN 0
    ELSE (IF pool[1].sender = w THEN pool[1].amount + stake ELSE 0)
         + Owed(Tail(pool), w, stake)

\* C2: a successful submit lowers the submitting wallet's balance by exactly
\* stake_amount (and no other balance), and a mine that produces a block
\* raises each wallet's balance by exactly amount + stake_amount for every
\* drained transaction it sent: net +amount over submit, accept, mine.
C2_StakeThenReward ==
    [][ /\ (last'.op = "submit" /\ last'.changed) =>
            LET tx == Last(tasks_for_validation') IN
            /\ tx.task = last'.key[1]
            /\ tx.sender \in DOMAIN wallets
            /\ wallets' = [wallets EXCEPT ![tx.sender] = @ - StakeAmount]
        /\ (last'.op = "mine" /\ last'.key) =>
            /\ DOMAIN wallets' = DOMAIN wallets
            /\ \A w \in DOMAIN wallets :
                  wallets'[w] = wallets[w] + Owed(tasks_for_mining, w, StakeAmount)
      ]_vars

\* the scenario: balance 10, stake 5, tree-planting count 3; after submit,
\* approval and mine the balance is 13 and the one mined block holds the task
C2_Witness ==
    /\ last.op = "mine" /\ last.key
    /\ wallets["w1"] = InitialBalance + 3
    /\ Len(chain) = 2
    /\ Len(Tip.transactions) = 1
    /\ Tip.transactions[1].amount = 3
    /\ Tip.transactions[1].proof_metadata = "tree3"
    /\ PoolSize(blockchain) = 0

\* C3: the stake of a rejected claim is never returned: once a task id is
\* rejected (by a validation pass or by a Rejected validation result) and
\* no new stake is withheld under that id, no mine credits a wallet for a
\* transaction of that id.
C3_RejectedNeverCredited ==
    [][ last'.op = "mine" =>
            \A i \in 1..Len(tasks_for_mining) :
                tasks_for_mining[i].sender \in DOMAIN wallets
                    => tasks_for_mining[i].task \notin slashed
      ]_vars

\* the task ids of the transactions of block b
BlockTasks(b) == {b.transactions[i].task : i \in 1..Len(b.transactions)}

\* the task ids of the entries of a pool
PoolTasks(pool) == {pool[i].task : i \in 1..Len(pool)}

\* C4: the task id is a dedup key between pending and mined state: no task
\* id of a transaction in a block of the chain is in tasks_for_validation
\* or tasks_for_mining, and no task id is in two blocks of the chain.
C4_TaskIdDedup ==
    /\ \A n \in 1..Len(chain) :
          BlockTasks(chain[n]) \cap
             (PoolTasks(tasks_for_validation) \cup PoolTasks(tasks_for_mining)) = {}
    /\ \A n, k \in 1..Len(chain) :
          n # k => BlockTasks(chain[n]) \cap BlockTasks(chain[k]) = {}

\* how many entries of a pool carry task id t
Occurrences(pool, t) == Cardinality({i \in 1..Len(pool) : pool[i].task = t})

\* C5: the pools are disjoint by task id and hold no duplicates: each task
\* id occurs at most once in tasks_for_validation and tasks_for_mining
\* taken together.
C5_PoolsDisjoint ==
    \A t \in Tasks :
        Occurrences(tasks_for_validation, t) + Occurrences(tasks_for_mining, t) <= 1

\* C6: New-task ingestion is idempotent: applying a New-task message twice
\* in a row leaves the ledger (pools, chain, wallets) as applying it once.
C6_NewTaskIdempotent ==
    \A tx \in NetTasks(Addresses, Tasks, Metas) :
        LET once == add_task_from_network(blockchain, tx) IN
        add_task_from_network(once, tx) = once

\* a New-task message delivered for a task that is pending: nothing changed
C6_Witness ==
    /\ last.op = "new_task" /\ ~last.changed
    /\ Occurrences(tasks_for_validation, last.key[1]) = 1

\* C7: New-block ingestion is idempotent: applying a New-block message
\* twice in a row leaves the chain and the pools as applying it once.
C7_NewBlockIdempotent ==
    \A b \in NetBlocks(blockchain, Addresses, Metas) :
        LET once == add_block_from_network(blockchain, b) IN
        add_block_from_network(once, b) = once

\* the block that is the tip was delivered again, and nothing changed
C7_Witness ==
    /\ last.op = "new_block" /\ ~last.changed
    /\ last.key[1] = Tip.hash
    /\ Len(chain) >= 2

\* C8: a New-block message whose previous_hash is not the tip's hash is
\* discarded: chain, pools and wallet balances are unchanged.
C8_StaleBlockDiscarded ==
    \A b \in NetBlocks(blockchain, Addresses, Metas) :
        b.previous_hash # Tip.hash
            => add_block_from_network(blockchain, b) = blockchain

\* a block built on the block one behind the tip was delivered (it is not
\* the tip itself), and nothing changed
C8_Witness ==
    /\ last.op = "new_block" /\ ~last.changed
    /\ Len(chain) >= 2
    /\ last.key[1][4] = chain[Len(chain) - 1].hash
    /\ last.key[1] # Tip.hash

\* the entries of a pool whose task id is not in the set ids, in order
Without(pool, ids) == SelectSeq(pool, LAMBDA t : t.task \notin ids)

\* C9: an accepted New-block message (previous_hash = the tip's hash) makes
\* the block the new tip, removes from both pools every entry whose task id
\* is in the block and keeps every other entry in its pool and order.
C9_AcceptedBlockPrunesPools ==
    \A b \in NetBlocks(blockchain, Addresses, Metas) :
        b.previous_hash = Tip.hash =>
            LET self == add_block_from_network(blockchain, b) IN
            /\ self.chain = Append(chain, b)
            /\ self.tasks_for_validation =
                  Without(tasks_for_validation, BlockTasks(b))
            /\ self.tasks_for_mining = Without(tasks_for_mining, BlockTasks(b))
            /\ self.wallets = wallets

\* an accepted block removed a pool entry of its task and left another
C9_Witness ==
    /\ last.op = "new_block" /\ last.changed
    /\ last.key[1] = Tip.hash
    /\ last.key[2] >= 1
    /\ PoolSize(blockchain) >= 1
    /\ \A t \in BlockTasks(Tip) : ~Pooled(blockchain, t)

\* C10: a Validation-result for a task id in tasks_for_validation moves the
\* (first) entry of that id to the end of tasks_for_mining when Validated
\* and removes it when Rejected, every other entry keeping its pool and
\* order; for a task id not in tasks_for_validation nothing changes.
C10_ValidationResult ==
    \A res \in NetResults(Tasks) :
        LET t == res[1]
            self == update_task_status_from_network(blockchain, t, res[2])
            moved == res[2] = "Validated"
        IN  IF AnyTask(tasks_for_validation, t)
            THEN /\ Occurrences(self.tasks_for_validation, t)
                       = Occurrences(tasks_for_validation, t) - 1
                 /\ Without(self.tasks_for_validation, {t})
                       = Without(tasks_for_validation, {t})
                 /\ Len(self.tasks_for_validation)
                       = Len(tasks_for_validation) - 1
                 /\ IF moved
                    THEN /\ Len(self.tasks_for_mining) = Len(tasks_for_mining) + 1
                         /\ SubSeq(self.tasks_for_mining, 1, Len(tasks_for_mining))
                               = tasks_for_mining
                         /\ Last(self.tasks_for_mining)
                               = tasks_for_validation[
                                    Position(tasks_for_validation, t)]
                    ELSE self.tasks_for_mining = tasks_for_mining
                 /\ self.chain = chain /\ self.wallets = wallets
            ELSE self = blockchain

\* a Validated result moved a pending task to the end of tasks_for_mining
C10_Witness ==
    /\ last.op = "validation_result" /\ last.changed
    /\ last.key[2] = "Validated"
    /\ Len(tasks_for_mining) >= 1
    /\ Last(tasks_for_mining).task = last.key[1]
    /\ ~AnyTask(tasks_for_validation, last.key[1])

\* C11: ingesting a New-task message never charges a stake: it leaves
\* every wallet balance, the chain and tasks_for_mining unchanged, and
\* appends the task to tasks_for_validation exactly when no transaction of
\* that task id is in either pool (else tasks_for_validation is unchanged).
C11_NewTaskChargesNothing ==
    \A tx \in NetTasks(Addresses, Tasks, Metas) :
        LET self == add_task_from_network(blockchain, tx) IN
        /\ self.wallets = wallets
        /\ self.chain = chain
        /\ self.tasks_for_mining = tasks_for_mining
        /\ self.tasks_for_validation =
              IF Pooled(blockchain, tx.task) THEN tasks_for_validation
              ELSE Append(tasks_for_validation, tx)

\* a New-task message naming a local wallet as sender was admitted, and the
\* wallet still holds its initial balance
C11_Witness ==
    /\ last.op = "new_task" /\ last.changed
    /\ Len(tasks_for_validation) >= 1
    /\ Last(tasks_for_validation).task = last.key[1]
    /\ Last(tasks_for_validation).sender \in DOMAIN wallets
    /\ wallets[Last(tasks_for_validation).sender] = InitialBalance

\* C12: a submission by an address with no wallet, or with a balance below
\* stake_amount, returns no transaction and changes nothing (balances, both
\* pools, chain); a submission returns a transaction only when the balance
\* is at least stake_amount, and no balance is ever below zero.
C12_FailedSubmitChangesNothing ==
    /\ \A w \in Addresses, t \in Tasks, m \in Metas :
          LET r == submit_task(blockchain, w, t, m)
              failing == w \notin DOMAIN wallets \/ wallets[w] < StakeAmount
          IN  /\ failing => r.ret = None /\ r.self = blockchain
              /\ r.ret # None => ~failing /\ r.self.wallets[w] >= 0
    /\ \A w \in DOMAIN wallets : wallets[w] >= 0

\* a wallet that staked its whole balance submitted again: nothing changed
C12_Witness ==
    /\ last.op = "submit" /\ ~last.changed
    /\ "w1" \in DOMAIN wallets
    /\ wallets["w1"] < StakeAmount
    /\ Len(tasks_for_validation) = 2

\* C13: mine on an empty tasks_for_mining returns no block and changes no
\* state: chain, both pools and every wallet balance are unchanged.
C13_MineOnEmptyPool ==
    Len(tasks_for_mining) = 0 =>
        \A ts \in Times :
            LET r == mine_block(blockchain, ts) IN
            r.ret = None /\ r.self = blockchain

\* mine ran with nothing to mine while a task was still pending validation
C13_Witness ==
    /\ last.op = "mine" /\ ~last.key /\ ~last.changed
    /\ Len(tasks_for_mining) = 0
    /\ Len(tasks_for_validation) >= 1
    /\ DOMAIN wallets # {}

\* C14: mine on a non-empty tasks_for_mining drains the whole pool into one
\* new block on top of the tip: the block's task ids are exactly the task
\* ids that were in the pool (a task whose sender has no local wallet
\* included), every embedded transaction has receiver = sender, and every
\* local wallet is credited amount + stake_amount per drained transaction
\* it sent.
C14_MineDrainsAll ==
    [][ (last'.op = "mine" /\ Len(tasks_for_mining) > 0) =>
            /\ tasks_for_mining' = <<>>
            /\ Len(chain') = Len(chain) + 1
            /\ Last(chain').previous_hash = Tip.hash
            /\ BlockTasks(Last(chain')) = PoolTasks(tasks_for_mining)
            /\ \A i \in 1..Len(Last(chain').transactions) :
                  LET tx == Last(chain').transactions[i] IN
                  tx.receiver = tx.sender
            /\ \A w \in DOMAIN wallets :
                  wallets'[w] = wallets[w] + Owed(tasks_for_mining, w, StakeAmount)
      ]_vars

\* the console lines of a pass that follows the automated check: approve
\* what the check passes, reject what it flags
EngineChoice(self) ==
    [i \in 1..Len(self.tasks_for_validation) |->
        IF auto_check(self, self.tasks_for_validation[i]).passed
        THEN "a" ELSE "r"]

\* C15: in a local validation pass the outcome of each pending claim is the
\* automated check's verdict: a claim the check accepts moves to
\* tasks_for_mining with status Validated, a claim the check rejects is
\* dropped from the pool and does not enter tasks_for_mining in that pass.
C15_OutcomeIsVerdict ==
    [][ last'.op = "validate" =>
            LET r == validate_pending_tasks(blockchain, EngineChoice(blockchain))
            IN  blockchain' = r.self /\ last'.key = r.ret
      ]_vars

\* C16: a validation pass decides every pending entry exactly once: it
\* visits tasks_for_validation from its last entry to its first, leaves
\* none of them pending, and returns exactly one (task id, Validated or
\* Rejected) pair per entry, in the order visited.
C16_PassDecidesAll ==
    [][ last'.op = "validate" =>
            LET n == Len(tasks_for_validation) IN
            /\ tasks_for_validation' = <<>>
            /\ Len(last'.key) = n
            /\ \A k \in 1..n :
                  /\ last'.key[k][1] = tasks_for_validation[n - k + 1].task
                  /\ last'.key[k][2] \in Statuses
      ]_vars

\* C17: status matches pool membership: every entry of tasks_for_validation
\* has status PendingValidation, every entry of tasks_for_mining has status
\* Validated (moved there by a local pass or by a Validated
\* Validation-result), and every transaction of a block of the chain has
\* status Validated.
C17_StatusMatchesPool ==
    /\ \A i \in 1..Len(tasks_for_validation) :
          tasks_for_validation[i].status = "PendingValidation"
    /\ \A i \in 1..Len(tasks_for_mining) :
          tasks_for_mining[i].status = "Validated"
    /\ \A n \in 1..Len(chain) : \A i \in 1..Len(chain[n].transactions) :
          chain[n].transactions[i].status = "Validated"

\* the evidence token of a claim: its evidence URL, else its device id
\* (NoField when it carries neither)
EvidenceToken(tx) ==
    LET v == Json(tx.proof_metadata) IN
    IF v.evidence # NoField THEN v.evidence ELSE v.device_id

\* the transactions accepted so far: in tasks_for_mining or in a block
Accepted(self) ==
    {self.tasks_for_mining[i] : i \in 1..Len(self.tasks_for_mining)}
    \cup UNION {{self.chain[n].transactions[i] :
                    i \in 1..Len(self.chain[n].transactions)} :
                n \in 1..Len(self.chain)}

\* C18: replay rejection: a validation pass never accepts a claim whose
\* evidence token is the token of another claim (another task id) that is
\* accepted already or in the same pass, so of two claims with one evidence
\* token at most one reaches tasks_for_mining or a block.
C18_ReplayRejected ==
    [][ last'.op = "validate" =>
            \A i \in (Len(tasks_for_mining) + 1)..Len(tasks_for_mining') :
                LET tx == tasks_for_mining'[i] IN
                EvidenceToken(tx) # NoField =>
                    \A other \in Accepted(blockchain') :
                        other.task # tx.task
                            => EvidenceToken(other) # EvidenceToken(tx)
      ]_vars

\* C19: origin check: for every air-quality (aqi_data) claim whose
\* device_id is absent or not in authorized_devices the automated check of
\* a validation pass fails (the recommendation is REJECT), and the pass
\* changes no wallet balance: the submitter's balance stays at its
\* post-stake level.
C19_OriginCheck ==
    [][ last'.op = "validate" =>
            /\ \A k \in 1..Len(last'.printed) :
                  LET v == Json(last'.printed[k].proof_metadata) IN
                  (v.ok /\ v.type = "aqi_data"
                        /\ v.device_id \notin blockchain.authorized_devices)
                      => ~last'.printed[k].approve
            /\ wallets' = wallets
      ]_vars

\* an air-quality claim of device "unknown-007" was flagged by the check
\* and rejected; the submitter's balance is the initial one less the stake
C19_Witness ==
    /\ last.op = "validate"
    /\ last.printed = <<[task |-> "t1", proof_metadata |-> "aqiUnknown",
                         report |-> "UNAUTHORIZED DEVICE",
                         approve |-> FALSE]>>
    /\ last.key = <<<<"t1", "Rejected">>>>
    /\ "w1" \in DOMAIN wallets
    /\ wallets["w1"] = InitialBalance - StakeAmount
    /\ PoolSize(blockchain) = 0

\* C20: physical-limit anomaly check: for every claim whose numeric field
\* exceeds its ceiling (tons_captured > 50, count > 500) the automated
\* check of a validation pass fails, whatever the other checks say.
C20_AnomalyCheck ==
    [][ last'.op = "validate" =>
            \A k \in 1..Len(last'.printed) :
                LET v == Json(last'.printed[k].proof_metadata) IN
                (v.ok /\ (\/ v.count # None /\ v.count[1] > CountCeiling
                          \/ v.tons_captured # None /\ v.tons_captured[1] > 50))
                    => ~last'.printed[k].approve
      ]_vars

\* the compliance rule a claim violates first, in the order origin, replay,
\* plausibility, anomaly ("none" when it violates no rule); self is the
\* ledger the claim is evaluated in
FirstViolation(self, tx) ==
    LET v == Json(tx.proof_metadata)
        origin == v.type = "aqi_data"
                  /\ v.device_id \notin self.authorized_devices
        replay == EvidenceToken(tx) # NoField
                  /\ \E other \in Accepted(self) :
                        other.task # tx.task
                        /\ EvidenceToken(other) = EvidenceToken(tx)
        plausibility ==
            v.type \in {"tree_planting", "plastic_recycling"}
            /\ (v.evidence = NoField
                \/ run_ai_inference(self, v.evidence, v.type)[1] < 70)
        anomaly == \/ v.count # None /\ v.count[1] > CountCeiling
                   \/ v.tons_captured # None /\ v.tons_captured[1] > 50
    IN  CASE origin -> "origin"
          [] replay -> "replay"
          [] plausibility -> "plausibility"
          [] anomaly -> "anomaly"
          [] OTHER -> "none"

\* the rule a report of the automated check names
RuleOf(msg) ==
    CASE msg \in {"MISSING ID", "UNAUTHORIZED DEVICE"} -> "origin"
      [] msg \in {"MISSING PROOF", "AI REJECTION"} -> "plausibility"
      [] msg = "ANOMALY" -> "anomaly"
      [] OTHER -> "none"

\* C21: the compliance rules are applied in the order origin, replay,
\* plausibility, anomaly and the first failing rule decides: the check of
\* a validation pass reports the earliest rule the claim violates, and it
\* passes a claim only if the claim violates none.
C21_FirstFailureWins ==
    [][ last'.op = "validate" =>
            \A k \in 1..Len(last'.printed) :
                LET e == last'.printed[k]
                    first == FirstViolation(blockchain, e)
                IN  Json(e.proof_metadata).ok =>
                        /\ RuleOf(e.report) = first
                        /\ e.approve = (first = "none")
      ]_vars

C23_DurableAcrossRestart ==
    [][ last'.op = "restart" =>
            /\ chain' = chain
            /\ tasks_for_validation' = tasks_for_validation
            /\ tasks_for_mining' = tasks_for_mining
      ]_vars

\* the chain c starts with a genesis block: index 0, previous_hash "0", no
\* transactions
HasGenesis(c) ==
    /\ Len(c) >= 1
    /\ c[1].index = 0
    /\ c[1].previous_hash = Hash0
    /\ c[1].transactions = <<>>

\* C24: the chain is append-only with a fixed genesis: it is never empty,
\* block 0 has index 0, previous_hash "0" and no transactions, and every
\* step leaves the chain unchanged or appends exactly one block, no block
\* of the chain being removed or altered.
C24_AppendOnly ==
    [][ /\ HasGenesis(chain) /\ HasGenesis(chain')
        /\ \/ chain' = chain
           \/ /\ Len(chain') = Len(chain) + 1
              /\ SubSeq(chain', 1, Len(chain)) = chain
      ]_vars

\* a block mined on top of two earlier blocks, the genesis block kept
C24_Witness ==
    /\ last.op = "mine" /\ last.key
    /\ Len(chain) = LongChain
    /\ HasGenesis(chain)
    /\ Len(Tip.transactions) >= 1

\* C25: block indices are monotonic with no duplicates: the block at
\* position i of the chain (the genesis block at position 0) has index i,
\* blocks accepted from New-block messages included.
C25_IndexIsPosition ==
    \A n \in 1..Len(chain) : chain[n].index = n - 1

\* a received block on top of a chain of two earlier blocks carries the
\* index of its position
C25_Witness ==
    /\ last.op = "new_block" /\ last.changed
    /\ Len(chain) = LongChain
    /\ Tip.hash = last.key[1]
    /\ Tip.index = LongChain - 1
    /\ chain[LongChain - 1].index = LongChain - 2

\* the task ids of the transactions in the blocks of chain c
ChainTasks(c) == UNION {BlockTasks(c[n]) : n \in 1..Len(c)}

\* C26: no task transition is reversible: a task id that has left
\* tasks_for_validation (it is in tasks_for_mining, in a block, or was
\* rejected and removed) never appears in tasks_for_validation again, and
\* a task id that is in a block never appears in either pool again,
\* whatever local operation or peer message comes next.
C26_NoTransitionReversed ==
    [][ \A t \in Tasks :
            /\ (/\ ~AnyTask(tasks_for_validation, t)
                /\ \/ t \in slashed
                   \/ AnyTask(tasks_for_mining, t)
                   \/ t \in ChainTasks(chain))
                  => ~AnyTask(tasks_for_validation', t)
            /\ t \in ChainTasks(chain) =>
                  (~Pooled(blockchain, t) => ~Pooled(blockchain', t))
      ]_vars

\* the lines a finished pass read, as the choice per pool index
LinesRead(h) ==
    [k \in 1..Len(h.lines) |-> h.lines[Len(h.lines) - k + 1]]

C28_ChangeIsBroadcast ==
    [][ /\ last'.op \in {"submit", "submit_api"} =>
              /\ published'.msgs =
                    IF last'.changed
                    THEN <<Transaction(Last(tasks_for_validation'))>>
                    ELSE <<>>
              /\ \E w \in Addresses, t \in Tasks, m \in Metas :
                    blockchain' = submit_task(blockchain, w, t, m).self
        /\ last'.op = "validate" =>
              /\ Len(published'.msgs) = Len(last'.key)
              /\ \A k \in 1..Len(last'.key) :
                    published'.msgs[k] = ValidationResultMsg(last'.key[k])
              /\ \E choice \in [1..Len(tasks_for_validation) -> {"a", "r", "s"}] :
                    blockchain' = validate_pending_tasks(blockchain, choice).self
        /\ last'.op = "mine" =>
              /\ published'.msgs =
                    IF last'.key THEN <<Block(Last(chain'))>> ELSE <<>>
              /\ \E ts \in Times :
                    blockchain' = mine_block(blockchain, ts).self
      ]_vars

\* the claim types of the reward table
KnownTypes == {"tree_planting", "plastic_recycling", "aqi_data"}

\* C29: the reward of a submitted claim comes from the reward table keyed
\* by its declared type and is capped: the transaction a successful submit
\* creates claims at most 1000, 1 per counted unit for tree_planting, a
\* flat 5 for aqi_data, 1 for metadata that cannot be parsed, and 0 for a
\* type the table does not know; and the automated check of a validation
\* pass rejects every claim of a type the table does not know.
C29_RewardTable ==
    [][ /\ (last'.op = "submit" /\ last'.changed) =>
              LET tx == Last(tasks_for_validation')
                  v == Json(tx.proof_metadata)
              IN  /\ tx.amount <= 1000
                  /\ ~v.ok => tx.amount = 1
                  /\ (v.ok /\ v.type = "tree_planting" /\ v.count # None) =>
                        tx.amount = IF v.count[1] > 1000 THEN 1000
                                    ELSE v.count[1]
                  /\ (v.ok /\ v.type = "aqi_data") => tx.amount = 5
                  /\ (v.ok /\ v.type \notin KnownTypes) => tx.amount = 0
        /\ last'.op = "validate" =>
              \A k \in 1..Len(last'.printed) :
                  LET v == Json(last'.printed[k].proof_metadata) IN
                  (v.ok /\ v.type \notin KnownTypes) =>
                      ~last'.printed[k].approve
      ]_vars

\* peer A of C30: it has the chain of `self`, wallet w and empty pools
PeerA(self, w) ==
    [self EXCEPT !.wallets = [a \in {w} |-> InitialBalance],
                 !.tasks_for_validation = <<>>,
                 !.tasks_for_mining = <<>>]

\* what A publishes for a task it submits, approves and mines, and the
\* ledger it ends with
Produced(self, w, t, m, ts) ==
    LET submitted == submit_task(PeerA(self, w), w, t, m)
        passed == validate_pending_tasks(submitted.self, [i \in {1} |-> "a"])
        mined == mine_block(passed.self, ts)
    IN  [tx |-> submitted.ret[1], res |-> passed.ret[1],
         block |-> mined.ret[1], self |-> mined.self]

\* C30: in-order synchronization converges.  B is this ledger; A starts
\* with B's chain, submits a task, approves it and mines it.  When B is
\* given A's New-task, Validation-result and New-block messages in that
\* order, B's chain is A's chain and the task is in neither pool of B; and
\* when the New-block message comes before the New-task message, the task
\* is in neither pool of B once the three messages are applied.
C30_InOrderSyncConverges ==
    \A w \in Addresses, t \in Tasks, m \in Metas, ts \in Times :
        LET A == Produced(blockchain, w, t, m, ts)
            Task(self) == add_task_from_network(self, A.tx)
            Result(self) ==
                update_task_status_from_network(self, A.res[1], A.res[2])
            NewBlk(self) == add_block_from_network(self, A.block)
            inOrder == NewBlk(Result(Task(blockchain)))
            blockFirst == Result(Task(NewBlk(blockchain)))
            blockSecond == Task(NewBlk(Result(blockchain)))
        IN  /\ inOrder.chain = A.self.chain
            /\ ~Pooled(inOrder, t)
            /\ ~Pooled(blockFirst, t)
            /\ ~Pooled(blockSecond, t)

\* C31: stake custody is conserved: for every wallet and task id, mine has
\* credited amount + stake_amount for that task id to that wallet at most
\* as many times as the wallet successfully submitted that task id here,
\* so no wallet is refunded a stake that was never withheld from it and no
\* task is rewarded twice.
C31_StakeCustodyConserved ==
    \A k \in Addresses \X Tasks :
        custody.credited[k] <= custody.withheld[k]

\* C32: ingesting a peer message never moves money: a step that applies a
\* New-block, New-task or Validation-result message leaves every wallet
\* balance as it was, so only a local mine credits rewards and stake
\* refunds, and a pooled task that a peer's block settles leaves the pools
\* with no credit to its sender.
C32_IngestionMovesNoMoney ==
    [][ /\ last'.op \in {"new_block", "new_task", "validation_result"} =>
              wallets' = wallets
        /\ (\E a \in DOMAIN wallets \cap DOMAIN wallets' :
               wallets'[a] > wallets[a]) => last'.op = "mine"
      ]_vars

\* w1 staked t1 here, t1 was approved, and a peer's block carrying t1 was
\* accepted: t1 left tasks_for_mining and w1 is still short of its stake
C32_Witness ==
    /\ last.op = "new_block" /\ last.changed
    /\ last.key[2] = 1
    /\ Len(chain) = 2
    /\ BlockTasks(Tip) = {"t1"}
    /\ Tip.transactions[1].sender = "w1"
    /\ PoolSize(blockchain) = 0
    /\ "w1" \in DOMAIN wallets
    /\ wallets["w1"] = InitialBalance - StakeAmount

\* the blocks a peer can have mined on top of block p
MinedOn(p) ==
    {Block_new(p.index + 1, txs, p.hash, ts) :
        txs \in NetBlockTxs(Addresses, Metas), ts \in Times}

\* this node is B.  A mined a block x on a tip that is not B's tip any
\* more (B holds another block at x's height), or a block y on a block x
\* that B missed: B discards x, y and the blocks A mined on them
DiscardsDiverged ==
    /\ \A n \in 2..Len(chain) :
          \A x \in MinedOn(chain[n - 1]) \ {chain[n]} :
              /\ add_block_from_network(blockchain, x) = blockchain
              /\ \A y \in MinedOn(x) :
                    /\ add_block_from_network(blockchain, y) = blockchain
                    /\ \A z \in MinedOn(y) :
                          add_block_from_network(blockchain, z) = blockchain
    /\ \A x \in MinedOn(Tip) :
          \A y \in MinedOn(x) :
              /\ add_block_from_network(blockchain, y) = blockchain
              /\ \A z \in MinedOn(y) :
                    add_block_from_network(blockchain, z) = blockchain

\* C33: a peer that diverges never re-synchronizes: in every state, once
\* B's tip differs from the tip A mined on (B missed one of A's blocks or
\* holds a block of its own at that height), B discards every later block
\* of A's chain, because its previous_hash is not the hash of B's tip; and
\* a step that changes B's chain is a local mine or a New-block message
\* that appends one block whose previous_hash is the hash of the tip B
\* had.
C33_DivergedNeverResyncs ==
    /\ []DiscardsDiverged
    /\ [][ chain' # chain =>
              /\ last'.op \in {"mine", "new_block"}
              /\ Len(chain') = Len(chain) + 1
              /\ SubSeq(chain', 1, Len(chain)) = chain
              /\ Last(chain').previous_hash = Tip.hash
        ]_vars

\* B mined its own block on the genesis block (w1 holds stake and reward
\* again), and the block A mined on the genesis block was discarded
C33_Witness ==
    /\ last.op = "new_block" /\ ~last.changed
    /\ Len(chain) = 2
    /\ "w1" \in DOMAIN wallets
    /\ wallets["w1"] = InitialBalance + Tip.transactions[1].amount
    /\ Tip.transactions[1].sender = "w1"
    /\ last.key[1][4] = chain[1].hash
    /\ last.key[1] # Tip.hash

====
